---- MODULE Spec2Model ----
(***************************************************************************)
(* A model of DukeRoguelikeAgain: the game loop of main.rs, the systems of *)
(* systems.rs, the AI state machine of models/ai.rs, the position          *)
(* arithmetic of models/mod.rs and the event buses of events/.             *)
(*                                                                         *)
(* These specifications live here.                                         *)
(*   Spec    the game: Engine::init, then Engine::update tick after tick,  *)
(*           one step per system call, and the DeadEntity handler.         *)
(*   SpecAi  Ai::get_next_action driven the way its unit test drives it:   *)
(*           the caller moves the AI and the player, changes the health,   *)
(*           and calls get_next_action.                                    *)
(*   SpecPos Vision::can_see and the distances of Position applied to      *)
(*           positions the caller picks, as the unit tests apply them.     *)
(*   SpecWalk    Position::go_towards iterated as test_go_towards does.    *)
(*   SpecBus     one EventBus of events/event_bus.rs: subscribe, publish.  *)
(*   SpecManager the EventBusManager of events/event_bus_manager.rs:       *)
(*               subscribe, enqueue, dispatch_all.                         *)
(*   SpecErik    the priority-ordered EventBus of events/erik_mod.rs.      *)
(***************************************************************************)
EXTENDS Integers, Sequences, FiniteSets, TLC

\* ------------------------------------------------------------------------
\* Bounds of the model
\* ------------------------------------------------------------------------

\* The console of the program is 80 x 45 (main.rs:35-36); the model plays on
\* a console of the same shape scaled down, border included, wide enough
\* for the cell right of the centre to lie inside the border as it does at
\* 80 x 45.
CONSOLE_WIDTH == 5
CONSOLE_HEIGHT == 4

\* spawn_goblin is called with 5 goblins (main.rs:69); the model spawns fewer.
num_goblins == 2

\* The deferred queue only ever grows; the model stops enqueuing at MaxQueue.
MaxQueue == 1

\* SpecAi: coordinates of the AI and of the player are drawn from 0 .. AiGrid,
\* view ranges from 1 .. MaxViewRange, total health from 1 .. MaxTotalHealth.
AiGrid == 3
MaxViewRange == 2
MaxTotalHealth == 4

\* SpecPos: coordinates are drawn from -1 .. GeoGrid, view ranges from
\* 0 .. MaxViewRange.
GeoGrid == 1

\* SpecBus, SpecManager, SpecErik: the handlers a caller has at hand, which is
\* also the most subscriptions it makes; SpecErik: the largest priority.
MaxHandlers == 3
MaxPriority == 1

\* ------------------------------------------------------------------------
\* Program constants
\* ------------------------------------------------------------------------

min_health == 5

\* Health::new(rand % (max_health - min_health) + min_health) with the range
\* (5, 10) (main.rs:70).  A goblin's health never changes in the game, so the
\* draw decides nothing; the model draws the lowest value.
GoblinHealths == {min_health}
PlayerHealth == 15
GoblinViewRange == 6
PlayerDamage == 2
AiDamage == 1
RetreatDistance == 10

\* sin(180.0) and cos(180.0), the argument in radians as f64::sin_cos takes
\* it, scaled by TrigScale and rounded toward zero.
TrigScale == 1000
Sin180 == 0 - 801
Cos180 == 0 - 598

\* Option<Entity>::None
NoEntity == 0 - 1

\* ------------------------------------------------------------------------
\* models/mod.rs: Position
\* ------------------------------------------------------------------------

Pos(x, y) == [x |-> x, y |-> y]

Abs(n) == IF n < 0 THEN 0 - n ELSE n

Sign(n) == IF n < 0 THEN 0 - 1 ELSE IF n > 0 THEN 1 ELSE 0

new_from_dx_dy(self, dx, dy) == Pos(self.x + dx, self.y + dy)

is_within_bounds(self, min_x, max_x, min_y, max_y) ==
    /\ self.x >= min_x
    /\ self.x <= max_x
    /\ self.y >= min_y
    /\ self.y <= max_y

is_within_console_bounds_border_included(self) ==
    is_within_bounds(self, 0, CONSOLE_WIDTH - 1, 0, CONSOLE_HEIGHT - 1)

is_within_console_bounds(self) ==
    is_within_bounds(self, 1, CONSOLE_WIDTH - 2, 1, CONSOLE_HEIGHT - 2)

\* Mutant: the y difference is not squared.
distance_squared_dy_unsquared(self, other) ==
    (self.x - other.x) * (self.x - other.x) + (self.y - other.y)

\* dx.powi(2) + dy.powi(2) on f64 values of small integers is exact.
distance_squared(self, other) ==
    (self.x - other.x) * (self.x - other.x) + (self.y - other.y) * (self.y - other.y)

\* Mutant: abs() is taken of dx only.
fast_distance_dy_signed(self, other) == Abs(self.x - other.x) + (self.y - other.y)

fast_distance(self, other) == Abs(self.x - other.x) + Abs(self.y - other.y)

\* go_towards computes angle = atan2(dy, dx) and compares |cos(angle)| with
\* |sin(angle)| as f64 values.  Off the diagonals the comparison agrees with
\* |dx| against |dy|.  On a diagonal the angle is the f64 nearest to an odd
\* multiple of pi/4, whose sine and cosine are different f64 values: for
\* dx > 0 the cosine is the larger one (x step), for dx < 0 the sine is the
\* larger one (y step); the third branch of the code is not reached.  For
\* dx = dy = 0 the angle is 0, cos = 1 and sin = 0: a step to the right.
DiagonalStep_right(self, dx, dy) == Pos(self.x + 1, self.y)

DiagonalStep(self, dx, dy) ==
    IF dx > 0 THEN Pos(self.x + 1, self.y) ELSE Pos(self.x, self.y + Sign(dy))

go_towards(self, other) ==
    LET dx == other.x - self.x
        dy == other.y - self.y
    IN  IF dx = 0 /\ dy = 0 THEN Pos(self.x + 1, self.y)
        ELSE IF Abs(dx) > Abs(dy) THEN Pos(self.x + Sign(dx), self.y)
        ELSE IF Abs(dy) > Abs(dx) THEN Pos(self.x, self.y + Sign(dy))
        ELSE DiagonalStep(self, dx, dy)

\* (v * distance) as isize, for v = n / (TrigScale * sqrt(r2)): the cast
\* truncates toward zero.
TruncTimes(distance, n, r2) ==
    LET unit == TrigScale \div distance
        mag == CHOOSE k \in 0..distance :
                  /\ (k * unit) * (k * unit) * r2 <= n * n
                  /\ \/ k = distance
                     \/ ((k + 1) * unit) * ((k + 1) * unit) * r2 > n * n
    IN  IF n < 0 THEN 0 - mag ELSE mag

\* self.go_distance_theta(distance, 180.0 - self.angle(other)).
\* With a = atan2(dy, dx), dx = other.x - self.x, dy = other.y - self.y
\* (atan2(0, 0) = 0), and theta = 180.0 - a:
\*   sin(theta) = (sin180 * dx - cos180 * dy) / r
\*   cos(theta) = (cos180 * dx + sin180 * dy) / r,  r = sqrt(dx^2 + dy^2)
\* go_distance_theta binds (dx, dy) = theta.sin_cos(), so the x offset is
\* the sine and the y offset is the cosine.
go_distance_theta_inverted(self, other, distance) ==
    LET ex == other.x - self.x
        ey == other.y - self.y
        dx == IF ex = 0 /\ ey = 0 THEN 1 ELSE ex
        dy == ey
        r2 == dx * dx + dy * dy
        x == TruncTimes(distance, Sin180 * dx - Cos180 * dy, r2)
        y == TruncTimes(distance, Cos180 * dx + Sin180 * dy, r2)
    IN  Pos(x + self.x, y + self.y)

\* ------------------------------------------------------------------------
\* models/stats.rs: Health
\* ------------------------------------------------------------------------

Health_new(h) == [total_health |-> h, current_health |-> h]

\* Mutant: a ratio of exactly 0.25 counts as low.
ratio_at_most_quarter(h) == 4 * h.current_health <= h.total_health

\* get_ratio() < 0.25: current as f32 / total as f32 compared with 0.25.
\* For the small values here the quotient is below 0.25 exactly when
\* 4 * current < total (total = 0 gives -inf, NaN or +inf, the same answer).
ratio_below_quarter(h) == 4 * h.current_health < h.total_health

\* ------------------------------------------------------------------------
\* models/ai.rs: Vision, Ai
\* ------------------------------------------------------------------------

\* Mutant: the distance is taken with the Manhattan metric.
can_see_manhattan(view_range, self_pos, position) ==
    fast_distance(self_pos, position) <= view_range * view_range

\* Mutant: the boundary of the view range is not visible.
can_see_strict(view_range, self_pos, position) ==
    distance_squared(self_pos, position) < view_range * view_range

can_see(view_range, self_pos, position) ==
    distance_squared(self_pos, position) <= view_range * view_range

GoTo(p) == [kind |-> "GoTo", pos |-> p]
Attack(p) == [kind |-> "Attack", pos |-> p]
Wait == [kind |-> "Wait"]

\* The two call sites pass (player_pos, my_position) for the parameters
\* (my_position, player_position), invert_angle = true, distance = None.
find_position_relative_to_player(my_position, player_position) ==
    go_distance_theta_inverted(my_position, player_position, RetreatDistance)

IdlingArm(player_pos, my_position, my_health, view_range) ==
    IF can_see(view_range, my_position, player_pos)
    THEN [state |-> "Angry", action |-> GoTo(player_pos)]
    ELSE [state |-> "Idling", action |-> Wait]

\* Mutant: an Afraid AI whose health is back above the threshold turns Angry.
AfraidArm_recovers(player_pos, my_position, my_health, view_range) ==
    IF ~can_see(view_range, my_position, player_pos)
    THEN [state |-> "Idling", action |-> Wait]
    ELSE IF ~ratio_below_quarter(my_health)
    THEN [state |-> "Angry", action |-> GoTo(player_pos)]
    ELSE [state |-> "Afraid",
          action |-> GoTo(find_position_relative_to_player(player_pos, my_position))]

AfraidArm(player_pos, my_position, my_health, view_range) ==
    IF ~can_see(view_range, my_position, player_pos)
    THEN [state |-> "Idling", action |-> Wait]
    ELSE [state |-> "Afraid",
          action |-> GoTo(find_position_relative_to_player(player_pos, my_position))]

\* Mutant: adjacency is tested before visibility.
AngryArm_adjacent_first(player_pos, my_position, my_health, view_range) ==
    IF distance_squared(my_position, player_pos) <= 2
          /\ ~ratio_below_quarter(my_health)
    THEN [state |-> "Angry", action |-> Attack(player_pos)]
    ELSE IF ~can_see(view_range, my_position, player_pos)
    THEN [state |-> "Idling", action |-> Wait]
    ELSE IF ratio_below_quarter(my_health)
    THEN [state |-> "Afraid",
          action |-> GoTo(find_position_relative_to_player(player_pos, my_position))]
    ELSE [state |-> "Angry", action |-> GoTo(player_pos)]

\* Mutant: the attack branch comes before the health branch.
AngryArm_attack_before_flee(player_pos, my_position, my_health, view_range) ==
    IF ~can_see(view_range, my_position, player_pos)
    THEN [state |-> "Idling", action |-> Wait]
    ELSE IF distance_squared(my_position, player_pos) <= 2
    THEN [state |-> "Angry", action |-> Attack(player_pos)]
    ELSE IF ratio_below_quarter(my_health)
    THEN [state |-> "Afraid",
          action |-> GoTo(find_position_relative_to_player(player_pos, my_position))]
    ELSE [state |-> "Angry", action |-> GoTo(player_pos)]

AngryArm(player_pos, my_position, my_health, view_range) ==
    IF ~can_see(view_range, my_position, player_pos)
    THEN [state |-> "Idling", action |-> Wait]
    ELSE IF ratio_below_quarter(my_health)
    THEN [state |-> "Afraid",
          action |-> GoTo(find_position_relative_to_player(player_pos, my_position))]
    ELSE IF distance_squared(my_position, player_pos) <= 2
    THEN [state |-> "Angry", action |-> Attack(player_pos)]
    ELSE [state |-> "Angry", action |-> GoTo(player_pos)]

\* The new curr_state and the action returned.
get_next_action(curr_state, player_pos, my_position, my_health, view_range) ==
    IF curr_state = "Idling" THEN IdlingArm(player_pos, my_position, my_health, view_range)
    ELSE IF curr_state = "Afraid" THEN AfraidArm(player_pos, my_position, my_health, view_range)
    ELSE AngryArm(player_pos, my_position, my_health, view_range)

\* ------------------------------------------------------------------------
\* State
\* ------------------------------------------------------------------------

VARIABLES
    \* hecs::World of MyRoguelike
    alive,              \* the entities that exist
    position,           \* Position of every entity
    health,             \* Health of every entity
    ai,                 \* Ai::curr_state of every goblin
    goblin_rows,        \* the goblins in the row order of their archetype
    input_state,        \* InputState::was_input_handled_this_frame (on the player)
    \* the systems' own fields
    input_state_entity_id,   \* InputSystem::input_state_entity_id
    player_entity_id,        \* AiSystem::player_entity_id
    \* EventBusManager::queued_events
    queued_events,
    \* the game loop
    lifecycle,          \* Uninitialized, Initialized, Running, Terminated
    init_pc,            \* how many stages of Engine::init have run
    inited,             \* the systems whose init has run, in order
    sys_idx,            \* Engine::update: 0 between two ticks, else the index of the next system
    called,             \* the systems called so far in the current tick, in order
    results,            \* what each system's call returned in the current tick
    \* the call just made, until the next system is called
    input_call,         \* InputSystem::call: the keys held and the world it found
    ai_call,            \* AiSystem::call: the world it found
    \* SpecAi: one Ai with the arguments of its next get_next_action call
    fsm,
    fsm_call,           \* the last call: its arguments, the state before, the action returned
    \* SpecPos: three positions, a Vision, and what the last call returned
    geo,
    \* events/event_bus.rs
    handlers,           \* EventBus::handlers of one bus
    publish_call,       \* the last publish on it: the event and what every handler got
    \* events/event_bus_manager.rs (with queued_events above)
    buses,              \* EventBusManager::buses: the handlers of the bus of each type
    dispatch_call,      \* the last dispatch_all: the queue it found and how it ended
    \* events/erik_mod.rs
    subscribers,        \* EventBus::subscribers: the handlers of each event type
    erik_call           \* the last publish on it: the handlers invoked and the result

world_vars == <<alive, position, health, ai, goblin_rows, input_state>>
system_vars == <<input_state_entity_id, player_entity_id>>
call_vars == <<input_call, ai_call>>
loop_vars == <<lifecycle, init_pc, inited, sys_idx, called, results, call_vars>>
game_vars == <<world_vars, system_vars, queued_events, loop_vars>>
fsm_vars == <<fsm, fsm_call, geo>>
bus_vars == <<handlers, publish_call, buses, dispatch_call, subscribers, erik_call>>
vars == <<game_vars, fsm_vars, bus_vars>>

\* ------------------------------------------------------------------------
\* main.rs: MyRoguelike::new
\* ------------------------------------------------------------------------

\* Mutant: the Damage system is listed before the AI system.
systems_damage_before_ai == <<"InputSystem", "DamageSystem", "AISystem", "DeadCollector">>

\* The system list, by SystemFunc::get_name.
systems == <<"InputSystem", "AISystem", "DamageSystem", "DeadCollector">>

SystemNames == {"InputSystem", "AISystem", "DamageSystem", "DeadCollector"}

\* World::spawn hands out ids 0, 1, 2, ...: the player first, then the batch.
PlayerId == 0
GoblinIds == 1..num_goblins

NoCall == [n \in SystemNames |-> "none"]

NoInputCall == [made |-> FALSE]

NoAiCall == [made |-> FALSE]

NoFsm == [curr_state |-> "Idling", my_position |-> Pos(0, 0), player_pos |-> Pos(0, 0),
          health |-> Health_new(1), view_range |-> 1]

NoFsmCall == [made |-> FALSE]

NoGeoCall == [op |-> "none"]

NoGeo == [a |-> Pos(0, 0), b |-> Pos(0, 0), c |-> Pos(0, 0), view_range |-> 0,
          out |-> NoGeoCall]

NoPublishCall == [made |-> FALSE]

NoDispatchCall == [status |-> "none"]

NoErikCall == [made |-> FALSE]

\* HashMap::new(): no key
NoBuses == [T \in {} |-> << >>]

\* EventBus::new() of event_bus.rs and of erik_mod.rs, EventBusManager::new()
NoBus ==
    /\ handlers = << >>
    /\ publish_call = NoPublishCall
    /\ buses = NoBuses
    /\ dispatch_call = NoDispatchCall
    /\ subscribers = NoBuses
    /\ erik_call = NoErikCall

new ==
    /\ alive = {}
    /\ position = << >>
    /\ health = << >>
    /\ ai = << >>
    /\ goblin_rows = << >>
    /\ input_state = FALSE
    /\ input_state_entity_id = NoEntity
    /\ player_entity_id = NoEntity
    /\ queued_events = << >>
    /\ lifecycle = "Uninitialized"
    /\ init_pc = 0
    /\ inited = << >>
    /\ sys_idx = 0
    /\ called = << >>
    /\ results = NoCall
    /\ input_call = NoInputCall
    /\ ai_call = NoAiCall

Init ==
    /\ new
    /\ fsm = NoFsm
    /\ fsm_call = NoFsmCall
    /\ geo = NoGeo
    /\ NoBus

\* ------------------------------------------------------------------------
\* main.rs: Engine::init
\* ------------------------------------------------------------------------

\* Mutant: the goblin wave is spawned after the systems' init.
InitStage_goblins_last(pc) ==
    IF pc = 0 THEN "spawn_player"
    ELSE IF pc <= 4 THEN <<"InputSystem", "AISystem", "DamageSystem", "DeadCollector">>[pc]
    ELSE IF pc = 5 THEN "spawn_goblin"
    ELSE "done"

\* What Engine::init does after init_pc stages: the player, the goblins,
\* then init of every system in list order.
InitStage(pc) ==
    IF pc = 0 THEN "spawn_player"
    ELSE IF pc = 1 THEN "spawn_goblin"
    ELSE IF pc - 1 <= Len(systems) THEN systems[pc - 1]
    ELSE "done"

InitRuns(stage) == lifecycle = "Uninitialized" /\ InitStage(init_pc) = stage

\* The stage is over; after the last one the scheduler is Initialized.
InitAdvance ==
    /\ init_pc' = init_pc + 1
    /\ lifecycle' = IF InitStage(init_pc + 1) = "done" THEN "Initialized" ELSE "Uninitialized"

\* An expect() or unwrap() failed: the process aborts.
Panic ==
    /\ lifecycle' = "Terminated"

SpawnPlayer ==
    /\ InitRuns("spawn_player")
    /\ alive' = alive \cup {PlayerId}
    /\ position' = (PlayerId :> Pos(CONSOLE_WIDTH \div 2, CONSOLE_HEIGHT \div 2)) @@ position
    /\ health' = (PlayerId :> Health_new(PlayerHealth)) @@ health
    /\ input_state' = FALSE
    /\ InitAdvance
    /\ UNCHANGED <<ai, goblin_rows, system_vars, queued_events, inited, sys_idx, called, results, call_vars, fsm_vars, bus_vars>>

\* entities.rs: rand % map_width + 1 with map_width = CONSOLE_WIDTH - 2.
SpawnCells ==
    {Pos(x, y) : x \in 1..(CONSOLE_WIDTH - 2), y \in 1..(CONSOLE_HEIGHT - 2)}

spawn_goblin ==
    /\ InitRuns("spawn_goblin")
    /\ \E ps \in [GoblinIds -> SpawnCells],
          hs \in [GoblinIds -> GoblinHealths] :
            /\ alive' = alive \cup GoblinIds
            /\ position' = ps @@ position
            /\ health' = [g \in GoblinIds |-> Health_new(hs[g])] @@ health
            /\ ai' = [g \in GoblinIds |-> "Idling"]
            /\ goblin_rows' = [i \in 1..num_goblins |-> i]
    /\ InitAdvance
    /\ UNCHANGED <<input_state, system_vars, queued_events, inited, sys_idx, called, results, call_vars, fsm_vars, bus_vars>>

\* world.query::<&InputState>().iter().next().expect(..).0
InputSystemInit ==
    /\ InitRuns("InputSystem")
    /\ inited' = Append(inited, "InputSystem")
    /\ IF PlayerId \in alive
       THEN /\ input_state_entity_id' = PlayerId
            /\ InitAdvance
       ELSE /\ Panic
            /\ UNCHANGED <<input_state_entity_id, init_pc>>
    /\ UNCHANGED <<world_vars, player_entity_id, queued_events, sys_idx, called, results, call_vars, fsm_vars, bus_vars>>

\* world.query::<&Player>().iter().next().expect(..).0
AiSystemInit ==
    /\ InitRuns("AISystem")
    /\ inited' = Append(inited, "AISystem")
    /\ IF PlayerId \in alive
       THEN /\ player_entity_id' = PlayerId
            /\ InitAdvance
       ELSE /\ Panic
            /\ UNCHANGED <<player_entity_id, init_pc>>
    /\ UNCHANGED <<world_vars, input_state_entity_id, queued_events, sys_idx, called, results, call_vars, fsm_vars, bus_vars>>

\* DamageSystem::init makes a new PreparedQuery: no state of the model changes.
DamageSystemInit ==
    /\ InitRuns("DamageSystem")
    /\ inited' = Append(inited, "DamageSystem")
    /\ InitAdvance
    /\ UNCHANGED <<world_vars, system_vars, queued_events, sys_idx, called, results, call_vars, fsm_vars, bus_vars>>

\* DeadCollector has no init of its own: the empty default of SystemFunc.
DeadCollectorInit ==
    /\ InitRuns("DeadCollector")
    /\ inited' = Append(inited, "DeadCollector")
    /\ InitAdvance
    /\ UNCHANGED <<world_vars, system_vars, queued_events, sys_idx, called, results, call_vars, fsm_vars, bus_vars>>

\* ------------------------------------------------------------------------
\* systems.rs: get_entity_locations
\* ------------------------------------------------------------------------

\* world.query::<&Position>() visits the player's archetype, then the
\* goblins' archetype row by row.
QueryOrder == (IF PlayerId \in alive THEN <<PlayerId>> ELSE << >>) \o goblin_rows

\* collect::<HashMap<Position, Entity>>(): of two entities on one cell the
\* one visited last stays in the map.
get_entity_locations ==
    LET order == QueryOrder
        cells == {position[order[i]] : i \in 1..Len(order)}
        last(p) == CHOOSE i \in 1..Len(order) :
                      /\ position[order[i]] = p
                      /\ \A j \in (i + 1)..Len(order) : position[order[j]] # p
    IN  [p \in cells |-> order[last(p)]]

\* Mutant: the attacker and the target change places.
Damage_reversed(from, to, damage) == [from |-> to, to |-> from, damage |-> damage]

Damage(from, to, damage) == [from |-> from, to |-> to, damage |-> damage]

\* EventBusManager::enqueue
enqueue(queue, event) == Append(queue, event)

\* ------------------------------------------------------------------------
\* main.rs: Engine::update
\* ------------------------------------------------------------------------

CallRuns(name) ==
    /\ lifecycle = "Running"
    /\ sys_idx >= 1
    /\ systems[sys_idx] = name

\* if let Err(e) = system.call(..) { tracing::error!(..) }: the loop goes on
\* to the next system whatever the call returned.
LoopContinues(result) == result \in {"Ok", "ComponentMissing", "MissingEntity", "GameOver"}

\* The call of the system `name` has ended with `result`.
Returned(name, result) ==
    /\ called' = Append(called, name)
    /\ results' = [results EXCEPT ![name] = result]
    /\ IF result = "panic"
       THEN /\ Panic
            /\ UNCHANGED sys_idx
       ELSE IF LoopContinues(result)
       THEN /\ lifecycle' = lifecycle
            /\ sys_idx' = IF sys_idx = Len(systems) THEN 0 ELSE sys_idx + 1
       ELSE /\ lifecycle' = "Terminated"
            /\ sys_idx' = 0

\* The engine calls update: a tick begins.
UpdateBegin ==
    /\ lifecycle \in {"Initialized", "Running"}
    /\ sys_idx = 0
    /\ lifecycle' = "Running"
    /\ sys_idx' = 1
    /\ called' = << >>
    /\ results' = NoCall
    /\ UNCHANGED <<world_vars, system_vars, queued_events, init_pc, inited, call_vars, fsm_vars, bus_vars>>

\* ------------------------------------------------------------------------
\* systems.rs: InputSystem::call
\* ------------------------------------------------------------------------

Keys == {"ArrowLeft", "ArrowRight", "ArrowUp", "ArrowDown"}

\* Mutant: the chain tests the keys in the order Down, Up, Right, Left.
next_position_down_first(keys, player_pos) ==
    IF "ArrowDown" \in keys THEN [some |-> TRUE, pos |-> new_from_dx_dy(player_pos, 0, 1)]
    ELSE IF "ArrowUp" \in keys THEN [some |-> TRUE, pos |-> new_from_dx_dy(player_pos, 0, 0 - 1)]
    ELSE IF "ArrowRight" \in keys THEN [some |-> TRUE, pos |-> new_from_dx_dy(player_pos, 1, 0)]
    ELSE IF "ArrowLeft" \in keys THEN [some |-> TRUE, pos |-> new_from_dx_dy(player_pos, 0 - 1, 0)]
    ELSE [some |-> FALSE]

\* The if / else if chain over input.key(..): the first key held wins.
next_position(keys, player_pos) ==
    IF "ArrowLeft" \in keys THEN [some |-> TRUE, pos |-> new_from_dx_dy(player_pos, 0 - 1, 0)]
    ELSE IF "ArrowRight" \in keys THEN [some |-> TRUE, pos |-> new_from_dx_dy(player_pos, 1, 0)]
    ELSE IF "ArrowUp" \in keys THEN [some |-> TRUE, pos |-> new_from_dx_dy(player_pos, 0, 0 - 1)]
    ELSE IF "ArrowDown" \in keys THEN [some |-> TRUE, pos |-> new_from_dx_dy(player_pos, 0, 1)]
    ELSE [some |-> FALSE]

\* Mutant: was_input_handled_this_frame is only ever set, never reset.
InputSystem_call_no_reset(keys) ==
    LET entity_locations == get_entity_locations
        same == [result |-> "Ok", position |-> position, input_state |-> input_state,
                 queued_events |-> queued_events]
    IN  IF input_state_entity_id = NoEntity
        THEN [same EXCEPT !.result = "MissingEntity"]
        ELSE IF input_state_entity_id \notin alive
        THEN [same EXCEPT !.result = "GameOver"]
        ELSE
          LET player_input_id == input_state_entity_id
              next == next_position(keys, position[player_input_id])
          IN  IF ~next.some
              THEN same
              ELSE IF is_within_console_bounds(next.pos)
                      /\ next.pos \notin DOMAIN entity_locations
              THEN [same EXCEPT !.input_state = TRUE,
                                !.position = [position EXCEPT ![player_input_id] = next.pos]]
              ELSE IF next.pos \in DOMAIN entity_locations
              THEN [same EXCEPT !.input_state = TRUE,
                                !.queued_events =
                                    enqueue(queued_events,
                                            Damage(player_input_id,
                                                   entity_locations[next.pos],
                                                   PlayerDamage))]
              ELSE same

\* What the call returns and the state it leaves, for the keys held.
InputSystem_call(keys) ==
    LET entity_locations == get_entity_locations
        same == [result |-> "Ok", position |-> position, input_state |-> input_state,
                 queued_events |-> queued_events]
    IN  IF input_state_entity_id = NoEntity
        THEN [same EXCEPT !.result = "MissingEntity"]
        ELSE IF input_state_entity_id \notin alive
        THEN [same EXCEPT !.result = "GameOver"]
        ELSE
          LET player_input_id == input_state_entity_id
              next == next_position(keys, position[player_input_id])
          IN  IF ~next.some
              THEN [same EXCEPT !.input_state = FALSE]
              ELSE IF is_within_console_bounds(next.pos)
                      /\ next.pos \notin DOMAIN entity_locations
              THEN [same EXCEPT !.input_state = TRUE,
                                !.position = [position EXCEPT ![player_input_id] = next.pos]]
              ELSE IF next.pos \in DOMAIN entity_locations
              THEN [same EXCEPT !.input_state = TRUE,
                                !.queued_events =
                                    enqueue(queued_events,
                                            Damage(player_input_id,
                                                   entity_locations[next.pos],
                                                   PlayerDamage))]
              ELSE [same EXCEPT !.input_state = FALSE]

\* api.input() is read after the player was found: a call that returns
\* before that reads no key.
KeysRead ==
    IF input_state_entity_id = NoEntity \/ input_state_entity_id \notin alive
    THEN {{}}
    ELSE SUBSET Keys

InputSystemCall ==
    /\ CallRuns("InputSystem")
    /\ \E keys \in KeysRead :
          LET r == InputSystem_call(keys)
          IN  /\ Len(r.queued_events) <= MaxQueue
              /\ position' = r.position
              /\ input_state' = r.input_state
              /\ queued_events' = r.queued_events
              /\ input_call' = [made |-> TRUE, keys |-> keys, position |-> position,
                                 queued_events |-> queued_events,
                                 input_state |-> input_state]
              /\ Returned("InputSystem", r.result)
    /\ UNCHANGED <<alive, health, ai, goblin_rows, system_vars, init_pc, inited, ai_call,
                   fsm_vars, bus_vars>>

\* ------------------------------------------------------------------------
\* systems.rs: AiSystem::call
\* ------------------------------------------------------------------------

get_entity_locs_without_player == {position[g] : g \in DOMAIN ai}

\* get_entity_locs: the cells that hold an entity, taken once before the loop.
get_entity_locs == DOMAIN get_entity_locations

\* Mutant: the AI system runs on every frame.
was_input_handled_every_frame == TRUE

\* AiSystem::was_input_handled_this_frame, the player's InputState found.
was_input_handled_this_frame == input_state

\* Mutant: the player's position is the one the Input system found when its
\* call began.
player_position_before_input(player_id) ==
    IF input_call.made THEN input_call.position[player_id] ELSE position[player_id]

\* player.get::<&Position>(): the player's position as the world holds it now.
player_position(player_id) == position[player_id]

\* Mutant: the attacker is also the target.
attack_event_on_self(id, player_id) == Damage(id, id, AiDamage)

\* Damage { from: id, to: player_id.clone(), damage: 1 }
attack_event(id, player_id) == Damage(id, player_id, AiDamage)

AiSystem_call ==
    LET same == [result |-> "Ok", ai |-> ai, position |-> position,
                 queued_events |-> queued_events]
    IN  IF player_entity_id = NoEntity \/ player_entity_id \notin alive
        THEN \* unwrap() of None, or expect("Could not get input state!")
             [same EXCEPT !.result = "panic"]
        ELSE IF ~was_input_handled_this_frame
        THEN same
        ELSE
          LET has_entity == get_entity_locs
              player_id == player_entity_id
              player_pos == player_position(player_id)
              next(g) == get_next_action(ai[g], player_pos, position[g], health[g],
                                         GoblinViewRange)
              step(g) == go_towards(position[g], next(g).action.pos)
              moves(g) == next(g).action.kind = "GoTo" /\ step(g) \notin has_entity
              attacks(g) == next(g).action.kind = "Attack" /\ next(g).action.pos \in has_entity
              attackers == SelectSeq(goblin_rows, attacks)
          IN  [result |-> "Ok",
               ai |-> [g \in DOMAIN ai |-> next(g).state],
               position |-> [e \in DOMAIN position |->
                                IF e \in DOMAIN ai /\ moves(e) THEN step(e) ELSE position[e]],
               queued_events |-> queued_events \o
                                   [i \in 1..Len(attackers) |->
                                       attack_event(attackers[i], player_id)]]

AiSystemCall ==
    /\ CallRuns("AISystem")
    /\ LET r == AiSystem_call
       IN  /\ Len(r.queued_events) <= MaxQueue
           /\ ai' = r.ai
           /\ position' = r.position
           /\ queued_events' = r.queued_events
           /\ ai_call' = [made |-> TRUE, ai |-> ai, position |-> position,
                           queued_events |-> queued_events,
                           tick_start |-> IF input_call.made THEN input_call.position
                                         ELSE position]
           /\ input_call' = NoInputCall
           /\ Returned("AISystem", r.result)
    /\ UNCHANGED <<alive, health, goblin_rows, input_state, system_vars, init_pc, inited, fsm_vars, bus_vars>>

\* ------------------------------------------------------------------------
\* systems.rs: DamageSystem::call
\* ------------------------------------------------------------------------

\* The Damage components in the world, as damage_query sees them.  Damage
\* values are only ever handed to EventBusManager::enqueue; no entity is
\* spawned with one.
DamageComponents == << >>

RECURSIVE ApplyDamage(_, _)
ApplyDamage(h, damages) ==
    IF damages = << >> THEN [result |-> "Ok", health |-> h]
    ELSE LET d == Head(damages)
         IN  IF d.to \notin DOMAIN h
             THEN [result |-> "MissingEntity", health |-> h]
             ELSE ApplyDamage([h EXCEPT ![d.to].current_health = @ - d.damage],
                              Tail(damages))

DamageSystem_call == ApplyDamage(health, DamageComponents)

DamageSystemCall ==
    /\ CallRuns("DamageSystem")
    /\ LET r == DamageSystem_call
       IN  /\ health' = r.health
           /\ Returned("DamageSystem", r.result)
    /\ ai_call' = NoAiCall
    /\ UNCHANGED <<alive, position, ai, goblin_rows, input_state, system_vars, queued_events,
                   init_pc, inited, input_call, fsm_vars, bus_vars>>

\* ------------------------------------------------------------------------
\* systems.rs: DeadCollector
\* ------------------------------------------------------------------------

\* DeadCollector stands in the system list, and its SystemFunc::call is
\* commented out: its turn in the tick changes nothing.
DeadCollectorCall ==
    /\ CallRuns("DeadCollector")
    /\ Returned("DeadCollector", "Ok")
    /\ UNCHANGED <<world_vars, system_vars, queued_events, init_pc, inited, call_vars, fsm_vars, bus_vars>>

\* hecs removes a row by moving the last row of the archetype into its place.
SwapRemove(rows, e) ==
    LET n == Len(rows)
        i == CHOOSE k \in 1..n : rows[k] = e
    IN  [j \in 1..(n - 1) |-> IF j = i THEN rows[n] ELSE rows[j]]

Without(f, e) == [x \in DOMAIN f \ {e} |-> f[x]]

\* The ids a DeadEntity event may name: every entity ever spawned and one
\* that never was.
EventEntities == 0..(num_goblins + 1)

\* The hecs::World as one value.
World ==
    [alive |-> alive, position |-> position, health |-> health, ai |-> ai,
     goblin_rows |-> goblin_rows, input_state |-> input_state]

\* The world w with the entity and every component of it removed.
Removed(w, entity) ==
    [w EXCEPT !.alive = @ \ {entity},
              !.position = Without(@, entity),
              !.health = Without(@, entity),
              !.ai = Without(@, entity),
              !.goblin_rows = IF entity = PlayerId THEN @ ELSE SwapRemove(@, entity)]

\* Mutant: an id that names no entity takes the goblin of the last row.
despawn_stale_id_hits_last_row(w, entity) ==
    IF entity \in w.alive
    THEN [result |-> "Ok", world |-> Removed(w, entity)]
    ELSE IF w.goblin_rows # << >>
    THEN [result |-> "Ok", world |-> Removed(w, w.goblin_rows[Len(w.goblin_rows)])]
    ELSE [result |-> "NoSuchEntity", world |-> w]

\* World::despawn(entity) -> Result<(), NoSuchEntity>
despawn(w, entity) ==
    IF entity \in w.alive
    THEN [result |-> "Ok", world |-> Removed(w, entity)]
    ELSE [result |-> "NoSuchEntity", world |-> w]

\* EventHandler<DeadEntity>::handle: world.despawn(event.entity), the error
\* of a missing entity logged and dropped.  The handler runs between two ticks.
handle(entity) ==
    /\ lifecycle \in {"Initialized", "Running"}
    /\ sys_idx = 0
    /\ LET w == despawn(World, entity).world
       IN  /\ alive' = w.alive
           /\ position' = w.position
           /\ health' = w.health
           /\ ai' = w.ai
           /\ goblin_rows' = w.goblin_rows
           /\ input_state' = w.input_state
    /\ UNCHANGED <<system_vars, queued_events, loop_vars, fsm_vars, bus_vars>>

DeadCollectorHandle == \E entity \in EventEntities : handle(entity)

\* ------------------------------------------------------------------------
\* The game
\* ------------------------------------------------------------------------

Next ==
    \/ SpawnPlayer
    \/ spawn_goblin
    \/ InputSystemInit
    \/ AiSystemInit
    \/ DamageSystemInit
    \/ DeadCollectorInit
    \/ UpdateBegin
    \/ InputSystemCall
    \/ AiSystemCall
    \/ DamageSystemCall
    \/ DeadCollectorCall
    \/ DeadCollectorHandle

Spec == Init /\ [][Next]_vars

\* ------------------------------------------------------------------------
\* models/ai.rs: get_next_action under its callers
\* ------------------------------------------------------------------------

AiPositions == {Pos(x, y) : x \in 0..AiGrid, y \in 0..AiGrid}

\* Ai::default() is Idling; Health::new(t) is full health.
InitAi ==
    /\ new
    /\ fsm \in [curr_state : {"Idling"},
                my_position : AiPositions,
                player_pos : AiPositions,
                health : {Health_new(t) : t \in 1..MaxTotalHealth},
                view_range : 1..MaxViewRange]
    /\ fsm_call = NoFsmCall
    /\ geo = NoGeo
    /\ NoBus

\* ai.get_next_action(&player_position, &ai_pos, &health, &vision)
AiCall ==
    /\ LET out == get_next_action(fsm.curr_state, fsm.player_pos, fsm.my_position,
                                  fsm.health, fsm.view_range)
       IN  /\ fsm' = [fsm EXCEPT !.curr_state = out.state]
           /\ fsm_call' = [made |-> TRUE, before |-> fsm, state |-> out.state,
                           action |-> out.action]
    /\ UNCHANGED <<game_vars, geo, bus_vars>>

\* The caller moves the AI (ai_pos = Position::new(..)).
SetAiPosition ==
    /\ \E p \in AiPositions : fsm' = [fsm EXCEPT !.my_position = p]
    /\ fsm_call' = NoFsmCall
    /\ UNCHANGED <<game_vars, geo, bus_vars>>

\* The player moves.
SetPlayerPosition ==
    /\ \E p \in AiPositions : fsm' = [fsm EXCEPT !.player_pos = p]
    /\ fsm_call' = NoFsmCall
    /\ UNCHANGED <<game_vars, geo, bus_vars>>

\* The caller sets health.current_health; damage may take it below zero.
SetCurrentHealth ==
    /\ \E c \in (0 - 1)..fsm.health.total_health :
          fsm' = [fsm EXCEPT !.health.current_health = c]
    /\ fsm_call' = NoFsmCall
    /\ UNCHANGED <<game_vars, geo, bus_vars>>

NextAi ==
    \/ AiCall
    \/ SetAiPosition
    \/ SetPlayerPosition
    \/ SetCurrentHealth

SpecAi == InitAi /\ [][NextAi]_vars

\* ------------------------------------------------------------------------
\* models/ai.rs, models/mod.rs: can_see and the distances under their callers
\* ------------------------------------------------------------------------

GeoPositions == {Pos(x, y) : x \in (0 - 1)..GeoGrid, y \in (0 - 1)..GeoGrid}

\* let one = Position::new(..); let two = ..; let three = ..;
\* let vision = Vision::new(..);
InitPos ==
    /\ new
    /\ fsm = NoFsm
    /\ fsm_call = NoFsmCall
    /\ geo \in [a : GeoPositions, b : GeoPositions, c : GeoPositions,
                view_range : 0..MaxViewRange, out : {NoGeoCall}]
    /\ NoBus

\* vision.can_see(&one, &two) and vision.can_see(&two, &one)
CanSeeCall ==
    /\ geo' = [geo EXCEPT !.out = [op |-> "can_see",
                                    ab |-> can_see(geo.view_range, geo.a, geo.b),
                                    ba |-> can_see(geo.view_range, geo.b, geo.a)]]
    /\ UNCHANGED <<game_vars, fsm, fsm_call, bus_vars>>

\* one.fast_distance(&one), one.fast_distance(&two), two.fast_distance(&one),
\* two.fast_distance(&three), one.fast_distance(&three)
FastDistanceCall ==
    /\ geo' = [geo EXCEPT !.out = [op |-> "fast_distance",
                                    aa |-> fast_distance(geo.a, geo.a),
                                    ab |-> fast_distance(geo.a, geo.b),
                                    ba |-> fast_distance(geo.b, geo.a),
                                    bc |-> fast_distance(geo.b, geo.c),
                                    ac |-> fast_distance(geo.a, geo.c)]]
    /\ UNCHANGED <<game_vars, fsm, fsm_call, bus_vars>>

\* The same calls of distance_squared.
DistanceSquaredCall ==
    /\ geo' = [geo EXCEPT !.out = [op |-> "distance_squared",
                                    aa |-> distance_squared(geo.a, geo.a),
                                    ab |-> distance_squared(geo.a, geo.b),
                                    ba |-> distance_squared(geo.b, geo.a),
                                    bc |-> distance_squared(geo.b, geo.c),
                                    ac |-> distance_squared(geo.a, geo.c)]]
    /\ UNCHANGED <<game_vars, fsm, fsm_call, bus_vars>>

\* The caller rebinds one of the positions (let two = Position::new(9, 10)).
SetGeoPosition ==
    /\ \E p \in GeoPositions :
          \/ geo' = [geo EXCEPT !.a = p, !.out = NoGeoCall]
          \/ geo' = [geo EXCEPT !.b = p, !.out = NoGeoCall]
          \/ geo' = [geo EXCEPT !.c = p, !.out = NoGeoCall]
    /\ UNCHANGED <<game_vars, fsm, fsm_call, bus_vars>>

\* let vision = Vision::new(3)
SetViewRange ==
    /\ \E r \in 0..MaxViewRange : geo' = [geo EXCEPT !.view_range = r, !.out = NoGeoCall]
    /\ UNCHANGED <<game_vars, fsm, fsm_call, bus_vars>>

NextPos ==
    \/ CanSeeCall
    \/ FastDistanceCall
    \/ DistanceSquaredCall
    \/ SetGeoPosition
    \/ SetViewRange

SpecPos == InitPos /\ [][NextPos]_vars

\* ------------------------------------------------------------------------
\* models/mod.rs: go_towards iterated the way test_go_towards iterates it
\* ------------------------------------------------------------------------

\* while curr_pos.distance(&goal, ..) > 0.0 {
\*     let next_pos = curr_pos.go_towards(&goal); ...; curr_pos = next_pos; }
\* curr_pos is geo.a and goal is geo.b; out keeps the position before the
\* step and the number of steps made.
GoTowardsLoop ==
    /\ geo.a # geo.b
    /\ geo' = [geo EXCEPT !.a = go_towards(geo.a, geo.b),
                          !.out = [op |-> "go_towards",
                                   curr_pos |-> geo.a,
                                   steps |-> IF geo.out.op = "go_towards"
                                             THEN geo.out.steps + 1 ELSE 1]]
    /\ UNCHANGED <<game_vars, fsm, fsm_call, bus_vars>>

\* The loop runs until its condition fails.
SpecWalk == InitPos /\ [][GoTowardsLoop]_vars /\ WF_vars(GoTowardsLoop)

\* ------------------------------------------------------------------------
\* events/event_bus.rs: EventBus<T> under a caller
\* ------------------------------------------------------------------------

HandlerIds == 1..MaxHandlers

DeadEntity(entity) == [entity |-> entity]

\* The events a caller publishes or enqueues.
BusEvents == {Damage(1, PlayerId, AiDamage), Damage(PlayerId, 1, PlayerDamage), DeadEntity(1)}

\* handler.handle(event, world) of a handler that records what it was given
\* and leaves its mark on the event and on the world.
Recorder_handle(handler, st) ==
    [log |-> Append(st.log, [handler |-> handler, event |-> st.event, world |-> st.world]),
     event |-> [st.event EXCEPT !.marks = Append(@, handler)],
     world |-> st.world \cup {handler}]

EventBus_subscribe(hs, handler) == Append(hs, handler)

\* for handler in &self.handlers { handler.handle(event, world); }, from the
\* i-th handler on.
RECURSIVE publish_reversed(_, _, _)
publish_reversed(hs, i, st) ==
    IF i > Len(hs) THEN st
    ELSE publish_reversed(hs, i + 1, Recorder_handle(hs[Len(hs) + 1 - i], st))

RECURSIVE publish(_, _, _)
publish(hs, i, st) ==
    IF i > Len(hs) THEN st
    ELSE publish(hs, i + 1, Recorder_handle(hs[i], st))

\* bus.subscribe(handler): the same handler may be subscribed again.
BusSubscribe ==
    /\ Len(handlers) < MaxHandlers
    /\ \E handler \in HandlerIds : handlers' = EventBus_subscribe(handlers, handler)
    /\ publish_call' = NoPublishCall
    /\ UNCHANGED <<game_vars, fsm_vars, buses, dispatch_call, subscribers, erik_call>>

\* bus.publish(&mut event, &mut world)
BusPublish ==
    /\ \E e \in BusEvents :
          LET start == [log |-> << >>, event |-> [payload |-> e, marks |-> << >>], world |-> {}]
              r == publish(handlers, 1, start)
          IN  publish_call' = [made |-> TRUE, given |-> start.event, log |-> r.log,
                               event |-> r.event, world |-> r.world]
    /\ UNCHANGED <<game_vars, fsm_vars, handlers, buses, dispatch_call, subscribers, erik_call>>

NextBus ==
    \/ BusSubscribe
    \/ BusPublish

SpecBus == Init /\ [][NextBus]_vars

\* ------------------------------------------------------------------------
\* events/event_bus_manager.rs: EventBusManager under a caller
\* ------------------------------------------------------------------------

EventTypes == {"Damage", "DeadEntity"}

\* (*event_box).type_id(): the TypeId of the event inside the box.
type_id(event) == IF "entity" \in DOMAIN event THEN "DeadEntity" ELSE "Damage"

\* post is generic in the type of its argument, and dispatch_all passes it
\* the box: post::<Box<dyn Event>>.
BoxDynEvent == "Box<dyn Event>"

\* self.buses.lock() ... get or insert.  buses is a std::sync::Mutex: locked
\* by a thread that holds it already (held), lock() does not return.
get_or_create_bus(bs, held, T) ==
    IF held THEN [status |-> "blocked"]
    ELSE [status |-> "ok",
          buses |-> IF T \in DOMAIN bs THEN bs ELSE (T :> << >>) @@ bs]

subscribe(bs, T, handler) ==
    LET r == get_or_create_bus(bs, FALSE, T)
    IN  [r.buses EXCEPT ![T] = EventBus_subscribe(@, handler)]

\* post(event, world) called while the buses lock is held or not.
post(bs, held, event) ==
    LET r == get_or_create_bus(bs, held, BoxDynEvent)
    IN  IF r.status = "blocked" THEN r
        ELSE [status |-> "ok", buses |-> r.buses,
              log |-> publish(r.buses[BoxDynEvent], 1,
                              [log |-> << >>,
                               event |-> [payload |-> event, marks |-> << >>],
                               world |-> {}]).log]

\* The event the drain of dispatch_all yields after i events were taken.
drain_from_the_back(queue, i) == queue[Len(queue) - i]

drain(queue, i) == queue[i + 1]

\* for event_box in queue.drain(..) { ... }, after the events st.taken.  The
\* guard of self.buses.lock() in the condition of the if let lives to the
\* end of its body, so post is called with the lock held.
RECURSIVE dispatch_all(_, _)
dispatch_all(queue, st) ==
    IF Len(st.taken) = Len(queue) THEN [st EXCEPT !.status = "returned"]
    ELSE LET event_box == drain(queue, Len(st.taken))
             taken == [st EXCEPT !.taken = Append(@, event_box)]
         IN  IF type_id(event_box) \in DOMAIN st.buses
             THEN LET r == post(st.buses, TRUE, event_box)
                  IN  IF r.status = "blocked"
                      THEN [taken EXCEPT !.status = "blocked"]
                      ELSE dispatch_all(queue, [taken EXCEPT !.buses = r.buses,
                                                             !.log = @ \o r.log])
             ELSE dispatch_all(queue, taken)

\* The calling thread is not stuck in a dispatch_all nor unwound by one.
ManagerUsable == dispatch_call.status \in {"none", "returned"}

RECURSIVE Subscriptions(_, _)
Subscriptions(bs, types) ==
    IF types = {} THEN 0
    ELSE LET T == CHOOSE t \in types : TRUE
         IN  Len(bs[T]) + Subscriptions(bs, types \ {T})

\* manager.subscribe::<T>(handler)
ManagerSubscribe ==
    /\ ManagerUsable
    /\ Subscriptions(buses, DOMAIN buses) < MaxHandlers
    /\ \E T \in EventTypes, handler \in HandlerIds : buses' = subscribe(buses, T, handler)
    /\ UNCHANGED <<world_vars, system_vars, queued_events, loop_vars, fsm_vars,
                   handlers, publish_call, dispatch_call, subscribers, erik_call>>

\* manager.enqueue(event)
ManagerEnqueue ==
    /\ ManagerUsable
    /\ Len(queued_events) <= MaxQueue
    /\ \E event \in BusEvents : queued_events' = enqueue(queued_events, event)
    /\ dispatch_call' = NoDispatchCall
    /\ UNCHANGED <<world_vars, system_vars, loop_vars, fsm_vars,
                   handlers, publish_call, buses, subscribers, erik_call>>

\* manager.dispatch_all(&mut world).  A lock() that does not return either
\* blocks for ever or panics; the events not yet taken stay with the drain.
ManagerDispatchAll ==
    /\ ManagerUsable
    /\ LET r == dispatch_all(queued_events,
                             [status |-> "running", buses |-> buses, taken |-> << >>,
                              log |-> << >>])
       IN  /\ \E outcome \in (IF r.status = "blocked" THEN {"deadlock", "panic"}
                                                       ELSE {"returned"}) :
                  dispatch_call' = [status |-> outcome,
                                    queue |-> queued_events,
                                    buses |-> buses,
                                    taken |-> r.taken,
                                    log |-> r.log,
                                    again |-> dispatch_call.status = "returned",
                                    previous |-> IF dispatch_call.status = "returned"
                                                 THEN dispatch_call.queue ELSE << >>]
           /\ buses' = r.buses
           /\ queued_events' = << >>
    /\ UNCHANGED <<world_vars, system_vars, loop_vars, fsm_vars,
                   handlers, publish_call, subscribers, erik_call>>

NextManager ==
    \/ ManagerSubscribe
    \/ ManagerEnqueue
    \/ ManagerDispatchAll

SpecManager == Init /\ [][NextManager]_vars

\* ------------------------------------------------------------------------
\* events/erik_mod.rs: the priority-ordered EventBus under a caller
\* ------------------------------------------------------------------------

\* enum Event { Damage { .. } }: one kind of event.
ErikEventTypes == {"Damage"}

Priorities == 0..MaxPriority

\* A Box<dyn EventHandler>: id tells the handlers apart by the order of
\* their registration, priority is what get_priority returns, fails tells
\* whether on_event returns Err.
ErikHandler(id, priority, fails) == [id |-> id, priority |-> priority, fails |-> fails]

\* One step of a stable sort: x goes behind every element that does not
\* compare greater than it.
insert_before_equal(sorted, x) ==
    LET k == Cardinality({j \in 1..Len(sorted) : sorted[j].priority < x.priority})
    IN  SubSeq(sorted, 1, k) \o <<x>> \o SubSeq(sorted, k + 1, Len(sorted))

insert(sorted, x) ==
    LET k == Cardinality({j \in 1..Len(sorted) : sorted[j].priority <= x.priority})
    IN  SubSeq(sorted, 1, k) \o <<x>> \o SubSeq(sorted, k + 1, Len(sorted))

\* curr_handlers.sort_by(|one, two| one.get_priority().cmp(&two.get_priority())):
\* slice::sort_by is stable.
RECURSIVE sort_by(_)
sort_by(s) ==
    IF s = << >> THEN << >>
    ELSE insert(sort_by(SubSeq(s, 1, Len(s) - 1)), s[Len(s)])

\* self.subscribers.entry(event_type).or_default(); push; sort_by
erik_subscribe(subs, event_type, handler) ==
    LET curr_handlers == IF event_type \in DOMAIN subs THEN subs[event_type] ELSE << >>
    IN  (event_type :> sort_by(Append(curr_handlers, handler))) @@ subs

\* for subscriber in subscribers { subscriber.on_event(event)?; } Ok(())
RECURSIVE on_events(_, _, _)
on_events(hs, i, log) ==
    IF i > Len(hs) THEN [result |-> "Ok", log |-> log]
    ELSE IF hs[i].fails THEN [result |-> "Err", log |-> Append(log, hs[i].id)]
    ELSE on_events(hs, i + 1, Append(log, hs[i].id))

erik_publish(subs, event_type) ==
    IF event_type \in DOMAIN subs THEN on_events(subs[event_type], 1, << >>)
    ELSE [result |-> "Ok", log |-> << >>]

RegisteredHandlers == Subscriptions(subscribers, DOMAIN subscribers)

\* bus.subscribe(event_type, handler)
ErikSubscribe ==
    /\ RegisteredHandlers < MaxHandlers
    /\ \E event_type \in ErikEventTypes, priority \in Priorities, fails \in BOOLEAN :
          subscribers' = erik_subscribe(subscribers, event_type,
                                        ErikHandler(RegisteredHandlers + 1, priority, fails))
    /\ erik_call' = NoErikCall
    /\ UNCHANGED <<game_vars, fsm_vars, handlers, publish_call, buses, dispatch_call>>

\* bus.publish(&event)
ErikPublish ==
    /\ \E event_type \in ErikEventTypes :
          LET r == erik_publish(subscribers, event_type)
          IN  erik_call' = [made |-> TRUE, event_type |-> event_type,
                            result |-> r.result, log |-> r.log]
    /\ UNCHANGED <<game_vars, fsm_vars, handlers, publish_call, buses, dispatch_call,
                   subscribers>>

NextErik ==
    \/ ErikSubscribe
    \/ ErikPublish

SpecErik == Init /\ [][NextErik]_vars

\* ------------------------------------------------------------------------
\* Properties of the game loop (Spec)
\* ------------------------------------------------------------------------

\* Squared Euclidean distance, for the statements below.
SqDist(a, b) == (a.x - b.x) * (a.x - b.x) + (a.y - b.y) * (a.y - b.y)

PipelineOrder == <<"InputSystem", "AISystem", "DamageSystem", "DeadCollector">>

IsPrefix(s, t) == Len(s) <= Len(t) /\ s = SubSeq(t, 1, Len(s))

InSeq(x, s) == \E i \in 1..Len(s) : s[i] = x

\* C1: in every tick the calls run in the order Input, AI, Damage,
\* DeadCollector, each exactly once, and a call has returned before the next
\* one begins: the calls made so far in a tick are always a prefix of that
\* order, a system has a result exactly when it has been called, the system
\* called next is the one after the last one that returned, and a tick that
\* update has finished has called all four.
C1_FixedPipelineOrder ==
    /\ IsPrefix(called, PipelineOrder)
    /\ \A n \in SystemNames : (results[n] # "none") <=> InSeq(n, called)
    /\ (lifecycle = "Running" /\ sys_idx > 0) => Len(called) = sys_idx - 1
    /\ (lifecycle = "Running" /\ sys_idx = 0) => called = PipelineOrder

\* C1 witness: a tick has run to its end, all four calls made, and the
\* Input system moved the player or attacked in it.
C1_Witness ==
    /\ lifecycle = "Running"
    /\ sys_idx = 0
    /\ called = PipelineOrder
    /\ \A n \in SystemNames : results[n] = "Ok"
    /\ PlayerId \in alive
    /\ input_state

\* C2: when the Input system's call returns GameOver, no other system is
\* called in that tick and the scheduler is Terminated from then on.
C2_GameOverHaltsScheduler ==
    results["InputSystem"] = "GameOver" =>
        /\ \A i \in 1..Len(called) : called[i] = "InputSystem"
        /\ sys_idx \in {0, 2}
        /\ sys_idx = 0 => lifecycle = "Terminated"

\* C4: the lifecycle goes Uninitialized, Initialized, Running, Terminated;
\* init runs once per system, in list order, after the player and the goblin
\* wave are in the world; no system is called before every init has run.
C4_LifecycleStates ==
    /\ IsPrefix(inited, PipelineOrder)
    /\ (lifecycle = "Uninitialized" /\ inited # << >>) => alive = 0..num_goblins
    /\ lifecycle = "Uninitialized" => (called = << >> /\ sys_idx = 0)
    /\ lifecycle \in {"Initialized", "Running"} =>
          /\ inited = PipelineOrder
          /\ input_state_entity_id = PlayerId
          /\ player_entity_id = PlayerId
    /\ lifecycle = "Initialized" => (called = << >> /\ sys_idx = 0)
    /\ (called # << >> \/ sys_idx > 0) => inited = PipelineOrder

C4_LifecycleSteps ==
    <<lifecycle, lifecycle'>> \in
        {<<"Uninitialized", "Uninitialized">>, <<"Uninitialized", "Initialized">>,
         <<"Initialized", "Initialized">>, <<"Initialized", "Running">>,
         <<"Running", "Running">>, <<"Running", "Terminated">>,
         <<"Terminated", "Terminated">>}

C4_InitBeforeCalls == [](C4_LifecycleStates) /\ [][C4_LifecycleSteps]_vars

\* C4 witness: the scheduler is Running and a system has been called.
C4_Witness ==
    /\ lifecycle = "Running"
    /\ called # << >>
    /\ inited = PipelineOrder
    /\ alive = 0..num_goblins

\* ------------------------------------------------------------------------
\* Properties of the Input system (Spec)
\* ------------------------------------------------------------------------

\* The Input system has just been called, found the player and returned Ok.
InputCalled == input_call.made /\ results["InputSystem"] = "Ok"

KeyOrder == <<"ArrowLeft", "ArrowRight", "ArrowUp", "ArrowDown">>

\* The key that counts when several are held.
FirstHeld(keys) ==
    KeyOrder[CHOOSE i \in 1..4 :
                /\ KeyOrder[i] \in keys
                /\ \A j \in 1..(i - 1) : KeyOrder[j] \notin keys]

Step(key) ==
    IF key = "ArrowLeft" THEN [x |-> 0 - 1, y |-> 0]
    ELSE IF key = "ArrowRight" THEN [x |-> 1, y |-> 0]
    ELSE IF key = "ArrowUp" THEN [x |-> 0, y |-> 0 - 1]
    ELSE [x |-> 0, y |-> 1]

KeyHeld == input_call.keys # {}

\* Where the player stood when the call began, and the cell the key points to.
PlayerBefore == input_call.position[PlayerId]

Destination ==
    [x |-> PlayerBefore.x + Step(FirstHeld(input_call.keys)).x,
     y |-> PlayerBefore.y + Step(FirstHeld(input_call.keys)).y]

InsideConsole(p) ==
    /\ 1 <= p.x
    /\ p.x <= CONSOLE_WIDTH - 2
    /\ 1 <= p.y
    /\ p.y <= CONSOLE_HEIGHT - 2

\* The entities that stood on the cell p when the call began.
OccupantsBefore(p) == {e \in DOMAIN input_call.position : input_call.position[e] = p}

\* C14: an Input call with a direction key held (of several the first of
\* Left, Right, Up, Down), whose destination cell is inside the console and
\* holds no entity, moves the player to that cell and nothing else, sets
\* was_input_handled_this_frame and enqueues no event.
C14_MoveIntoEmptyCell ==
    (InputCalled /\ KeyHeld /\ InsideConsole(Destination)
        /\ OccupantsBefore(Destination) = {}) =>
        /\ position = [input_call.position EXCEPT ![PlayerId] = Destination]
        /\ input_state
        /\ queued_events = input_call.queued_events

\* C14 witness: with ArrowRight and another key held, not ArrowLeft, the
\* player has moved one cell to the right.
C14_Witness ==
    /\ InputCalled
    /\ "ArrowRight" \in input_call.keys
    /\ Cardinality(input_call.keys) >= 2
    /\ position[PlayerId] = [x |-> PlayerBefore.x + 1, y |-> PlayerBefore.y]
    /\ input_state

\* C15: an Input call with a direction key held whose destination cell is
\* occupied leaves every position as it was, appends exactly one Damage
\* event, from the player to an entity that occupies the destination cell,
\* and sets was_input_handled_this_frame.
C15_AttackOccupiedCell ==
    (InputCalled /\ KeyHeld /\ OccupantsBefore(Destination) # {}) =>
        /\ position = input_call.position
        /\ Len(queued_events) = Len(input_call.queued_events) + 1
        /\ SubSeq(queued_events, 1, Len(input_call.queued_events)) = input_call.queued_events
        /\ queued_events[Len(queued_events)].from = PlayerId
        /\ queued_events[Len(queued_events)].to \in OccupantsBefore(Destination)
        /\ input_state

\* C15 witness: the player has attacked a cell on which two goblins stand.
C15_Witness ==
    /\ InputCalled
    /\ KeyHeld
    /\ Cardinality(OccupantsBefore(Destination)) = 2
    /\ Len(queued_events) = Len(input_call.queued_events) + 1
    /\ queued_events[Len(queued_events)].from = PlayerId

\* C17: when an Input call ends, was_input_handled_this_frame is true
\* exactly when the call moved the player or enqueued an event, whatever the
\* flag was before; with no key held, or a key toward an empty cell outside
\* the console, it is false.
C17_FlagIffInputConsumed ==
    InputCalled =>
        /\ input_state <=>
              \/ position[PlayerId] # PlayerBefore
              \/ Len(queued_events) > Len(input_call.queued_events)
        /\ ~KeyHeld => ~input_state
        /\ (KeyHeld /\ ~InsideConsole(Destination) /\ OccupantsBefore(Destination) = {})
              => ~input_state

\* C17 witness: the flag was true from the tick before, and a call with a
\* key toward an empty cell outside the console has left it false.
C17_Witness ==
    /\ InputCalled
    /\ input_call.input_state
    /\ KeyHeld
    /\ ~InsideConsole(Destination)
    /\ OccupantsBefore(Destination) = {}
    /\ ~input_state

\* ------------------------------------------------------------------------
\* Properties of the AI system (Spec)
\* ------------------------------------------------------------------------

\* The AI system has just been called and returned Ok.
AiCalled == ai_call.made /\ results["AISystem"] = "Ok"

\* The events the AI call enqueued.
AiEvents ==
    SubSeq(queued_events, Len(ai_call.queued_events) + 1, Len(queued_events))

AiEventsFrom(g) == {i \in 1..Len(AiEvents) : AiEvents[i].from = g}

\* The goblins the call found, and the player's position during the call
\* (the AI system does not move the player).
GoblinsBefore == DOMAIN ai_call.ai

PlayerNow == position[PlayerId]

\* C18: an AI call in a tick whose Input call consumed no move and no
\* attack changes nothing: every AI state and every position is as before
\* and no event is enqueued.
C18_NoInputNoAiTurn ==
    (ai_call.made /\ ~input_state) =>
        /\ ai = ai_call.ai
        /\ position = ai_call.position
        /\ queued_events = ai_call.queued_events

\* C18 witness: the AI system has been called with the flag false while an
\* Angry goblin stood next to the player and another one farther away.
C18_Witness ==
    /\ AiCalled
    /\ ~input_state
    /\ \E g \in GoblinsBefore :
          /\ ai[g] = "Angry"
          /\ SqDist(position[g], PlayerNow) <= 2
    /\ \E g \in GoblinsBefore :
          /\ ai[g] = "Angry"
          /\ SqDist(position[g], PlayerNow) > 2

\* Where the player stood when the tick began.
PlayerAtTickStart == ai_call.tick_start[PlayerId]

\* The AI system has run in a tick whose Input call moved the player.
AiRanAfterMove ==
    /\ AiCalled
    /\ input_state
    /\ PlayerAtTickStart # PlayerNow

ManhattanDist(a, b) ==
    (IF a.x < b.x THEN b.x - a.x ELSE a.x - b.x)
        + (IF a.y < b.y THEN b.y - a.y ELSE a.y - b.y)

InView(q, p) == SqDist(q, p) <= GoblinViewRange * GoblinViewRange

HealthLow(g) == 4 * health[g].current_health < health[g].total_health

\* What the goblin g did is what its state and the player's position p ask
\* for: an Idling goblin turns Angry exactly when p is in view; an Angry
\* goblin in good health that sees p enqueues an attack and stays put
\* exactly when p is next to it; a goblin enqueues nothing otherwise, and
\* when it moves it moves one step nearer to p.
ActedOn(g, p) ==
    LET q == ai_call.position[g]
        before == ai_call.ai[g]
        attacks == before = "Angry" /\ InView(q, p) /\ ~HealthLow(g) /\ SqDist(q, p) <= 2
    IN  /\ before = "Idling" => (ai[g] = "Angry" <=> InView(q, p))
        /\ IF attacks
           THEN Cardinality(AiEventsFrom(g)) = 1 /\ position[g] = q
           ELSE AiEventsFrom(g) = {}
        /\ (position[g] # q /\ ai[g] = "Angry") =>
              ManhattanDist(position[g], p) = ManhattanDist(q, p) - 1

\* C19: in a tick in which the player moved, every goblin acts on the
\* position the player has after the move.
C19_AiSeesMovedPlayer ==
    AiRanAfterMove => \A g \in GoblinsBefore : ActedOn(g, PlayerNow)

\* C19 witness: the player has stepped away from an Angry goblin that stood
\* next to it, out of its reach, and the goblin has followed instead of
\* attacking the cell the player left.
C19_Witness ==
    /\ AiRanAfterMove
    /\ \E g \in GoblinsBefore :
          /\ ai_call.ai[g] = "Angry"
          /\ SqDist(ai_call.position[g], PlayerAtTickStart) <= 2
          /\ SqDist(ai_call.position[g], PlayerNow) > 2
          /\ ~ActedOn(g, PlayerAtTickStart)
          /\ position[g] # ai_call.position[g]

\* The action get_next_action gave the goblin g in the call.
AiAction(g) ==
    get_next_action(ai_call.ai[g], PlayerNow, ai_call.position[g], health[g],
                    GoblinViewRange).action

\* The entities that stood on the cell p when the AI call began.
AiOccupantsBefore(p) == {e \in DOMAIN ai_call.position : ai_call.position[e] = p}

\* C20: a goblin whose action is Attack(pos) enqueues exactly one Damage
\* event, from itself to an entity that occupies pos, of amount 1, when pos
\* is occupied, and nothing when it is empty; the call returns Ok and the
\* attacker stays where it was.  No other event is enqueued.
C20_AttackResolution ==
    (AiCalled /\ input_state) =>
        /\ SubSeq(queued_events, 1, Len(ai_call.queued_events)) = ai_call.queued_events
        /\ \A i \in 1..Len(AiEvents) :
              /\ AiEvents[i].from \in GoblinsBefore
              /\ AiAction(AiEvents[i].from).kind = "Attack"
        /\ \A g \in GoblinsBefore :
              AiAction(g).kind = "Attack" =>
                  /\ position[g] = ai_call.position[g]
                  /\ IF AiOccupantsBefore(AiAction(g).pos) # {}
                     THEN /\ Cardinality(AiEventsFrom(g)) = 1
                          /\ \A i \in AiEventsFrom(g) :
                                /\ AiEvents[i].to \in AiOccupantsBefore(AiAction(g).pos)
                                /\ AiEvents[i].damage = 1
                     ELSE AiEventsFrom(g) = {}

\* C20 witness: a goblin has attacked the player's cell while the other
\* goblin, farther away, has not.
C20_Witness ==
    /\ AiCalled
    /\ input_state
    /\ Len(AiEvents) = 1
    /\ AiEvents[1].to = PlayerId
    /\ AiAction(AiEvents[1].from).kind = "Attack"
    /\ \E g \in GoblinsBefore : AiAction(g).kind = "GoTo"

\* The place of the goblin g in the order the AI query visits the goblins.
RowOf(g) == CHOOSE i \in 1..Len(goblin_rows) : goblin_rows[i] = g

\* Where the entity e stood at the moment the AI loop reached the goblin g:
\* a goblin visited before g had already acted, everyone else had not.
PositionAtStepOf(g, e) ==
    IF e \in GoblinsBefore /\ RowOf(e) < RowOf(g)
    THEN position[e]
    ELSE ai_call.position[e]

\* The cell one go_towards step takes the goblin g to.
AiDestination(g) == go_towards(ai_call.position[g], AiAction(g).pos)

\* The entities other than g on g's destination at the moment of g's step.
OccupantsAtStepOf(g) ==
    {e \in DOMAIN ai_call.position \ {g} : PositionAtStepOf(g, e) = AiDestination(g)}

\* C21: a goblin whose action is GoTo stays where it is when the cell one
\* step away is, at the moment of its step, occupied by another entity (one
\* that moved there earlier in the same call included), and moves to that
\* cell otherwise.
C21_GoToRejectsOccupiedCell ==
    (AiCalled /\ input_state) =>
        \A g \in GoblinsBefore :
            AiAction(g).kind = "GoTo" =>
                position[g] = IF OccupantsAtStepOf(g) # {}
                              THEN ai_call.position[g]
                              ELSE AiDestination(g)

\* C33: in one AI call every GoTo and every Attack is decided against the
\* cells that were occupied when the call began: a goblin moves exactly when
\* its step was free then, and attacks exactly when its target cell was
\* occupied then, whatever the goblins visited before it have done.
C33_OccupancyIsSnapshot ==
    (AiCalled /\ input_state) =>
        \A g \in GoblinsBefore :
            /\ AiAction(g).kind = "GoTo" =>
                  position[g] = IF AiOccupantsBefore(AiDestination(g)) # {}
                                THEN ai_call.position[g]
                                ELSE AiDestination(g)
            /\ AiAction(g).kind = "Attack" =>
                  (AiEventsFrom(g) # {} <=> AiOccupantsBefore(AiAction(g).pos) # {})

\* C33 witness: a goblin visited later has stepped onto the cell a goblin
\* visited earlier had just moved to.
C33_Witness ==
    /\ AiCalled
    /\ input_state
    /\ \E g, h \in GoblinsBefore :
          /\ RowOf(g) < RowOf(h)
          /\ AiAction(g).kind = "GoTo"
          /\ AiAction(h).kind = "GoTo"
          /\ ai_call.position[g] # ai_call.position[h]
          /\ position[g] # ai_call.position[g]
          /\ position[h] = position[g]

PairwiseDistinct(f) == \A a, b \in DOMAIN f : a # b => f[a] # f[b]

\* C36: when the entities stand on pairwise distinct cells as a tick begins,
\* they stand on pairwise distinct cells after the player's move and the AI
\* moves of that tick, and so after any number of ticks.
C36_CellsStayDistinct ==
    (AiCalled /\ PairwiseDistinct(ai_call.tick_start)) => PairwiseDistinct(position)

\* ------------------------------------------------------------------------
\* Properties of the Damage system (Spec)
\* ------------------------------------------------------------------------

\* The damage of the first n events ever enqueued that name e as their target.
RECURSIVE DamageEnqueued(_, _)
DamageEnqueued(e, n) ==
    IF n = 0 THEN 0
    ELSE DamageEnqueued(e, n - 1)
            + (IF queued_events[n].to = e THEN queued_events[n].damage ELSE 0)

TickEnded == lifecycle = "Running" /\ sys_idx = 0 /\ called = PipelineOrder

\* C16: every Damage event enqueued during a tick, by the Input system or
\* by the AI system, is applied by the Damage system in that tick, once: at
\* the end of every tick the current_health of every entity is its
\* total_health less the damage of the events enqueued for it so far.
C16_DamageAppliedSameTick ==
    TickEnded =>
        \A e \in alive :
            health[e].current_health =
                health[e].total_health - DamageEnqueued(e, Len(queued_events))

\* C28: the queue of deferred events is flushed once in every tick: at the
\* end of every tick it is empty, so it never grows from tick to tick.
C28_QueueFlushedEveryTick ==
    TickEnded => queued_events = << >>

\* ------------------------------------------------------------------------
\* Properties of get_next_action (SpecAi)
\* ------------------------------------------------------------------------

CallFrom(state) == fsm_call.made /\ fsm_call.before.curr_state = state

\* The player was within the view range at the last call.
Visible ==
    SqDist(fsm_call.before.my_position, fsm_call.before.player_pos)
        <= fsm_call.before.view_range * fsm_call.before.view_range

\* The AI's health ratio was below 0.25 at the last call.
LowHealth ==
    4 * fsm_call.before.health.current_health < fsm_call.before.health.total_health

Adjacent == SqDist(fsm_call.before.my_position, fsm_call.before.player_pos) <= 2

\* The call left the Ai in the state it reports.
Switched(state) == fsm_call.state = state /\ fsm.curr_state = state

\* C5: from Idling, the state becomes Angry and the action is
\* GoTo(player_pos) exactly when the squared distance is at most
\* view_range^2; otherwise the action is Wait and the state stays Idling,
\* whatever the health.
C5_IdlingSeesPlayer ==
    CallFrom("Idling") =>
        IF Visible
        THEN /\ Switched("Angry")
             /\ fsm_call.action = [kind |-> "GoTo", pos |-> fsm_call.before.player_pos]
        ELSE /\ Switched("Idling")
             /\ fsm_call.action = [kind |-> "Wait"]

\* C5 witness: an Idling AI with low health, the player exactly view_range
\* away, has turned Angry.
C5_Witness ==
    /\ CallFrom("Idling")
    /\ SqDist(fsm_call.before.my_position, fsm_call.before.player_pos)
          = fsm_call.before.view_range * fsm_call.before.view_range
    /\ LowHealth
    /\ fsm_call.state = "Angry"

\* C6: from Angry or Afraid, a player that is not visible gives Wait and
\* Idling, whatever the health and the adjacency.
C6_LosesSight ==
    ((CallFrom("Angry") \/ CallFrom("Afraid")) /\ ~Visible) =>
        /\ Switched("Idling")
        /\ fsm_call.action = [kind |-> "Wait"]

\* C6 witness: an Angry AI with full health, diagonally next to a player it
\* cannot see (view range 1), has gone Idling.
C6_Witness ==
    /\ CallFrom("Angry")
    /\ ~Visible
    /\ Adjacent
    /\ ~LowHealth
    /\ fsm_call.state = "Idling"

\* C7: from Angry, with the player visible and the health ratio below 0.25,
\* the state becomes Afraid and the action is GoTo(retreat point), never
\* Attack, also next to the player.
C7_LowHealthFlees ==
    (CallFrom("Angry") /\ Visible /\ LowHealth) =>
        /\ Switched("Afraid")
        /\ fsm_call.action.kind = "GoTo"
        /\ fsm_call.action.pos =
              find_position_relative_to_player(fsm_call.before.player_pos,
                                               fsm_call.before.my_position)

\* C7 witness: an Angry AI with low health next to the player has fled.
C7_Witness ==
    /\ CallFrom("Angry")
    /\ Visible
    /\ LowHealth
    /\ Adjacent
    /\ fsm_call.before.my_position # fsm_call.before.player_pos
    /\ fsm_call.state = "Afraid"

\* C8: from Angry, with the player visible and the health ratio at least
\* 0.25, the action is Attack(player_pos) exactly when the squared distance
\* is at most 2 and GoTo(player_pos) otherwise; the state stays Angry.
C8_AttackWhenAdjacent ==
    (CallFrom("Angry") /\ Visible /\ ~LowHealth) =>
        /\ Switched("Angry")
        /\ fsm_call.action =
              [kind |-> IF Adjacent THEN "Attack" ELSE "GoTo",
               pos |-> fsm_call.before.player_pos]

\* C8 witness: an Angry AI with a health ratio of exactly 0.25, diagonally
\* next to the player, has attacked.
C8_Witness ==
    /\ CallFrom("Angry")
    /\ Visible
    /\ 4 * fsm_call.before.health.current_health = fsm_call.before.health.total_health
    /\ SqDist(fsm_call.before.my_position, fsm_call.before.player_pos) = 2
    /\ fsm_call.action.kind = "Attack"

\* C9: from Afraid, with the player visible, the action is GoTo(retreat
\* point) and the state stays Afraid whatever the health ratio; a call
\* changes the state only along Idling -> Angry, Angry -> Afraid,
\* Angry -> Idling and Afraid -> Idling.
C9_AfraidStaysAfraid ==
    /\ (CallFrom("Afraid") /\ Visible) =>
          /\ Switched("Afraid")
          /\ fsm_call.action.kind = "GoTo"
          /\ fsm_call.action.pos =
                find_position_relative_to_player(fsm_call.before.player_pos,
                                                 fsm_call.before.my_position)
    /\ fsm_call.made =>
          \/ fsm_call.state = fsm_call.before.curr_state
          \/ <<fsm_call.before.curr_state, fsm_call.state>> \in
                {<<"Idling", "Angry">>, <<"Angry", "Afraid">>,
                 <<"Angry", "Idling">>, <<"Afraid", "Idling">>}

\* C9 witness: an Afraid AI back at full health, next to a player it sees,
\* is still Afraid.
C9_Witness ==
    /\ CallFrom("Afraid")
    /\ Visible
    /\ Adjacent
    /\ fsm_call.before.health.current_health = fsm_call.before.health.total_health
    /\ fsm_call.state = "Afraid"

\* The call made the AI flee: Angry with low health, or Afraid, player visible.
Fled ==
    /\ fsm_call.made
    /\ Visible
    /\ \/ fsm_call.before.curr_state = "Afraid"
       \/ fsm_call.before.curr_state = "Angry" /\ LowHealth

Dot(v, w) == v.x * w.x + v.y * w.y
Cross(v, w) == v.x * w.y - v.y * w.x
Minus(a, b) == [x |-> a.x - b.x, y |-> a.y - b.y]

\* The directions of v and w agree within about 14 degrees (tan <= 1/4).
SameDirection(v, w) ==
    /\ Dot(v, w) > 0
    /\ 4 * Cross(v, w) <= Dot(v, w)
    /\ 4 * Cross(w, v) <= Dot(v, w)

\* C10: the retreat point of a fleeing AI lies at distance 10 from the
\* player (each coordinate cut to an integer), the direction from the player
\* to it is opposite to the direction from the AI to the player, that is the
\* direction from the player to the AI, and it is not the player's position.
C10_RetreatIsOpposite ==
    (Fled /\ fsm_call.before.my_position # fsm_call.before.player_pos) =>
        LET retreat == fsm_call.action.pos
            from_player == Minus(retreat, fsm_call.before.player_pos)
            to_ai == Minus(fsm_call.before.my_position, fsm_call.before.player_pos)
        IN  /\ retreat # fsm_call.before.player_pos
            /\ Dot(from_player, from_player) <= RetreatDistance * RetreatDistance
            /\ Dot(from_player, from_player)
                  >= (RetreatDistance - 2) * (RetreatDistance - 2)
            /\ SameDirection(from_player, to_ai)

\* ------------------------------------------------------------------------
\* Properties of can_see and the distances (SpecPos)
\* ------------------------------------------------------------------------

\* C11: for every view range r and all positions a, b, can_see(a, b) equals
\* can_see(b, a), and can_see(a, b) holds exactly when
\* (ax - bx)^2 + (ay - by)^2 <= r^2: a squared distance of exactly r^2 is
\* visible, a larger one is not.
C11_CanSeeSymmetric ==
    geo.out.op = "can_see" =>
        /\ geo.out.ab = geo.out.ba
        /\ geo.out.ab <=> (SqDist(geo.a, geo.b) <= geo.view_range * geo.view_range)

\* C11 witness: two positions exactly view_range apart (view_range > 0) see
\* each other.
C11_Witness ==
    /\ geo.out.op = "can_see"
    /\ geo.view_range > 0
    /\ SqDist(geo.a, geo.b) = geo.view_range * geo.view_range
    /\ geo.out.ab
    /\ geo.out.ba

\* C12: fast_distance is a metric: d(a, a) = 0, d(a, b) = d(b, a) and
\* d(a, b) + d(b, c) >= d(a, c) for all positions a, b, c.
C12_ManhattanIsMetric ==
    geo.out.op = "fast_distance" =>
        /\ geo.out.aa = 0
        /\ geo.out.ab = geo.out.ba
        /\ geo.out.ab + geo.out.bc >= geo.out.ac

\* C12 witness: three different positions, b off the way from a to c, and
\* the triangle inequality strict.
C12_Witness ==
    /\ geo.out.op = "fast_distance"
    /\ geo.a # geo.b
    /\ geo.b # geo.c
    /\ geo.a # geo.c
    /\ geo.out.ab + geo.out.bc > geo.out.ac
    /\ geo.out.ac > 0

StepIsCloser ==
    geo.out.op = "go_towards" =>
        SqDist(geo.a, geo.b) < SqDist(geo.out.curr_pos, geo.b)

\* C22: from any start other than the goal every go_towards step ends
\* strictly closer to the goal in Euclidean distance, and the iteration
\* reaches the goal after finitely many steps.
C22_GoTowardsReachesGoal == [](StepIsCloser) /\ <>(geo.a = geo.b)

\* C22 witness: a walk of three steps or more has arrived at the goal.
C22_Witness ==
    /\ geo.out.op = "go_towards"
    /\ geo.out.steps >= 3
    /\ geo.a = geo.b

\* C32: from a position other than the target go_towards returns a position
\* one grid step away: with dx and dy the differences to the target, only x
\* changes, by sign(dx), when |dx| > |dy|; only y changes, by sign(dy), when
\* |dy| > |dx|; both change by their signs when |dx| = |dy|.
C32_StepShape ==
    geo.out.op = "go_towards" =>
        LET dx == geo.b.x - geo.out.curr_pos.x
            dy == geo.b.y - geo.out.curr_pos.y
            mx == geo.a.x - geo.out.curr_pos.x
            my == geo.a.y - geo.out.curr_pos.y
        IN  /\ Abs(dx) > Abs(dy) => (mx = Sign(dx) /\ my = 0)
            /\ Abs(dy) > Abs(dx) => (mx = 0 /\ my = Sign(dy))
            /\ Abs(dx) = Abs(dy) => (mx = Sign(dx) /\ my = Sign(dy))

\* ------------------------------------------------------------------------
\* Properties of EventBus::publish (SpecBus)
\* ------------------------------------------------------------------------

\* C23: publish invokes every subscription of the bus once, in the order of
\* subscription, before it returns; every handler is given the event and
\* the world as the handlers before it left them; with no handler nothing
\* is invoked and the event and the world stay as they were.
C23_PublishInSubscriptionOrder ==
    publish_call.made =>
        /\ Len(publish_call.log) = Len(handlers)
        /\ \A i \in 1..Len(handlers) :
              /\ publish_call.log[i].handler = handlers[i]
              /\ publish_call.log[i].event.payload = publish_call.given.payload
              /\ publish_call.log[i].event.marks = SubSeq(handlers, 1, i - 1)
              /\ publish_call.log[i].world = {handlers[j] : j \in 1..(i - 1)}
        /\ publish_call.event.marks = handlers
        /\ handlers = << >> =>
              /\ publish_call.event = publish_call.given
              /\ publish_call.world = {}

\* C23 witness: an event was published to three subscriptions, two of them
\* of the same handler.
C23_Witness ==
    /\ publish_call.made
    /\ Len(handlers) = 3
    /\ handlers[1] # handlers[2]
    /\ handlers[1] = handlers[3]

\* ------------------------------------------------------------------------
\* Properties of EventBusManager::dispatch_all (SpecManager)
\* ------------------------------------------------------------------------

DispatchCalled == dispatch_call.status # "none"

\* The deliveries the last dispatch_all made: which handler got which event.
Delivered ==
    [i \in 1..Len(dispatch_call.log) |->
        [handler |-> dispatch_call.log[i].handler,
         event |-> dispatch_call.log[i].event.payload]]

\* One delivery of every event of the queue, in order, to every handler that
\* was subscribed for the type of the event, and no other delivery.
RECURSIVE Owed(_, _, _)
Owed(queue, bs, n) ==
    IF n = 0 THEN << >>
    ELSE LET e == queue[n]
             hs == IF type_id(e) \in DOMAIN bs THEN bs[type_id(e)] ELSE << >>
         IN  Owed(queue, bs, n - 1) \o [i \in 1..Len(hs) |-> [handler |-> hs[i], event |-> e]]

OwedByDispatch == Owed(dispatch_call.queue, dispatch_call.buses, Len(dispatch_call.queue))

\* The queued events whose type had no bus when dispatch_all was called.
Unsubscribed ==
    {i \in 1..Len(dispatch_call.queue) :
        type_id(dispatch_call.queue[i]) \notin DOMAIN dispatch_call.buses}

\* C25: after any subscribes and enqueues, one dispatch_all delivers every
\* enqueued event once to every handler subscribed for the event's type:
\* none is lost, none delivered twice, none delivered to a handler of
\* another type.
C25_DispatchDeliversExactlyOnce ==
    DispatchCalled => Delivered = OwedByDispatch

\* C26: dispatch_all takes the queued events in the order they were
\* enqueued, whatever their types; when it returns it has taken them all
\* and the queue is empty; a dispatch_all that follows another with no
\* enqueue in between finds no event and delivers nothing.
C26_DispatchIsFifoAndDrains ==
    DispatchCalled =>
        /\ IsPrefix(dispatch_call.taken, dispatch_call.queue)
        /\ dispatch_call.status = "returned" =>
              /\ dispatch_call.taken = dispatch_call.queue
              /\ queued_events = << >>
        /\ dispatch_call.again =>
              /\ dispatch_call.queue = << >>
              /\ Delivered = << >>

\* C26 witness: a dispatch_all took a Damage and then a DeadEntity event and
\* returned, and the dispatch_all after it has returned too.
C26_Witness ==
    /\ dispatch_call.status = "returned"
    /\ dispatch_call.again
    /\ Len(dispatch_call.previous) >= 2
    /\ type_id(dispatch_call.previous[1]) = "Damage"
    /\ type_id(dispatch_call.previous[2]) = "DeadEntity"

\* C27: a dispatch_all that finds a queued event whose type has no
\* subscriber takes it off the queue, invokes no handler for it, raises no
\* error and still delivers every other queued event.
C27_NoSubscriberIsDropped ==
    (DispatchCalled /\ Unsubscribed # {}) =>
        /\ dispatch_call.status = "returned"
        /\ queued_events = << >>
        /\ \A i \in Unsubscribed, d \in 1..Len(Delivered) :
              Delivered[d].event # dispatch_call.queue[i]
        /\ Delivered = OwedByDispatch

\* C37: dispatch_all terminates whatever the queue and the buses hold, a
\* bus for the type of a queued event included: every call returns, none
\* blocks on the lock of the buses or of the queue, none panics.
C37_DispatchAllReturns ==
    DispatchCalled => dispatch_call.status = "returned"

\* ------------------------------------------------------------------------
\* Properties of the priority-ordered bus (SpecErik)
\* ------------------------------------------------------------------------

\* The handlers publish had to reach: those registered for the event's type.
Registered ==
    IF erik_call.event_type \in DOMAIN subscribers
    THEN subscribers[erik_call.event_type] ELSE << >>

Ids(hs) == [i \in 1..Len(hs) |-> hs[i].id]

\* C24: after any subscribes the handlers of an event type stand in
\* ascending order of priority, handlers of equal priority in the order of
\* their registration, and a publish that no handler fails runs them in
\* that order.
C24_HandlersSortedByPriority ==
    /\ \A T \in DOMAIN subscribers :
          \A i, j \in 1..Len(subscribers[T]) :
              i < j =>
                  /\ subscribers[T][i].priority <= subscribers[T][j].priority
                  /\ subscribers[T][i].priority = subscribers[T][j].priority
                        => subscribers[T][i].id < subscribers[T][j].id
    /\ (erik_call.made /\ erik_call.result = "Ok") => erik_call.log = Ids(Registered)

\* C24 witness: two handlers of priority 1 were registered, then one of
\* priority 0, and a publish has run the three.
C24_Witness ==
    /\ erik_call.made
    /\ erik_call.result = "Ok"
    /\ erik_call.log = <<3, 1, 2>>
    /\ Registered[1].priority = 0
    /\ Registered[2].priority = 1
    /\ Registered[3].priority = 1

\* C29: when a subscriber fails while an event is published, the failure is
\* reported and every other subscriber of the event is still invoked.
C29_FailureDoesNotStopOthers ==
    erik_call.made =>
        /\ erik_call.log = Ids(Registered)
        /\ (\E i \in 1..Len(Registered) : Registered[i].fails) => erik_call.result = "Err"

\* ------------------------------------------------------------------------
\* Properties of the systems' lookups (Spec)
\* ------------------------------------------------------------------------

\* C31: once the engine is initialized no call of a system panics on missing
\* data: a call that misses the player, its InputState or a component
\* returns MissingEntity, ComponentMissing or GameOver.
C31_NoPanicOnMissingData ==
    \A n \in SystemNames : results[n] # "panic"

\* ------------------------------------------------------------------------
\* Properties of DeadCollector::handle (Spec)
\* ------------------------------------------------------------------------

\* The entity e and its components are gone from w and nothing else is.
GoneFrom(w, e) ==
    /\ w.alive = alive \ {e}
    /\ DOMAIN w.position = DOMAIN position \ {e}
    /\ DOMAIN w.health = DOMAIN health \ {e}
    /\ DOMAIN w.ai = DOMAIN ai \ {e}
    /\ ~InSeq(e, w.goblin_rows)
    /\ \A x \in w.alive : w.position[x] = position[x] /\ w.health[x] = health[x]
    /\ \A x \in DOMAIN w.ai : w.ai[x] = ai[x] /\ InSeq(x, w.goblin_rows)

====
